---- MODULE Spec2Model ----
(***************************************************************************)
(* The request-admission pipeline of node-natours: the Express application *)
(* of app.js (its middleware stack in registration order), the tour route  *)
(* tables, and the collaborators the stack calls into (rate limiter,       *)
(* sanitizers, credential verifier, authorization guard, error handler).   *)
(***************************************************************************)
EXTENDS Integers, Sequences, FiniteSets, TLC

(***************************************************************************)
(* Program constants and model bounds                                      *)
(***************************************************************************)

\* rateLimit({ max: 100, ... })
Max == 100

\* default statusCode of the limiter's own handler (no handler/statusCode is
\* configured, so the library's default applies)
TooManyStatus == 429

\* new AppError(..., 404) of app.all('*')
NotFoundStatus == 404

\* the body size, in KB, the comment on express.json and its option name: '10kb'
TenKb == 10

\* body-parser's limit when options.limit is not given: '100kb'
DefaultLimitKb == 100

\* the hits of one window are followed up to Max + MaxOver, all clients together
MaxOver == 2

\* a window that opens with the reset of an over-quota client is followed for
\* MaxAfter hits
MaxAfter == 3

\* the keys and values of a structured input are strings of up to MaxLen
\* characters
MaxLen == 2

\* a query string holds up to MaxPairs name=value pairs
MaxPairs == 4

\* token and credential timestamps range over 1..MaxTime
MaxTime == 4

Clients == {"c1", "c2"}

Roles == {"user", "guide", "lead-guide", "admin"}

Modes == {"development", "production"}

\* request slots
Reqs == {"r1", "r2"}

VARIABLES
  mode,        \* process.env.NODE_ENV
  routeTable,  \* which tour route table is mounted: 0 = part_000, 1 = part_001
  hits,        \* the limiter's memory store: client key -> hit count
  issued,      \* history: requests a client sent through the limiter this window
  allowed,     \* history: requests of a client the limiter admitted this window
  lifted,      \* history: the clients that were over the maximum at the last reset
  req,         \* the requests: slot -> request/response record
  san,         \* a structured input on its way through the sanitizers
  qry          \* a query string on its way through the parser and hpp

vars == <<mode, routeTable, hits, issued, allowed, lifted, req, san, qry>>

(***************************************************************************)
(* Paths                                                                   *)
(***************************************************************************)

HasPrefix(path, prefix) ==
  /\ Len(prefix) <= Len(path)
  /\ \A i \in 1..Len(prefix) : path[i] = prefix[i]

Strip(path, prefix) == SubSeq(path, Len(prefix) + 1, Len(path))

ApiPrefix == <<"api">>

ToursPrefix == <<"api", "v1", "tours">>

\* the files under public/ that express.static serves
StaticFiles == {<<"img", "logo.png">>}

(***************************************************************************)
(* The application's middleware stack, app.js in registration order        *)
(***************************************************************************)

Layer(n, m, e) == [name |-> n, mount |-> m, isErr |-> e]

\* mutant: the limiter is mounted on every path
MiddlewaresLimiterEverywhere(md) ==
  <<Layer("static", <<>>, FALSE)>>
  \o (IF md = "development" THEN <<Layer("morgan", <<>>, FALSE)>> ELSE <<>>)
  \o <<Layer("helmet", <<>>, FALSE),
       Layer("limiter", <<>>, FALSE),
       Layer("json", <<>>, FALSE),
       Layer("mongoSanitize", <<>>, FALSE),
       Layer("xss", <<>>, FALSE),
       Layer("hpp", <<>>, FALSE),
       Layer("requestTime", <<>>, FALSE)>>

\* static files, logging (development only), headers, limiter, body parsing,
\* sanitizers, request time
Middlewares(md) ==
  <<Layer("static", <<>>, FALSE)>>
  \o (IF md = "development" THEN <<Layer("morgan", <<>>, FALSE)>> ELSE <<>>)
  \o <<Layer("helmet", <<>>, FALSE),
       Layer("limiter", ApiPrefix, FALSE),
       Layer("json", <<>>, FALSE),
       Layer("mongoSanitize", <<>>, FALSE),
       Layer("xss", <<>>, FALSE),
       Layer("hpp", <<>>, FALSE),
       Layer("requestTime", <<>>, FALSE)>>

Routers ==
  <<Layer("viewRouter", <<>>, FALSE),
    Layer("userRouter", <<"api", "v1", "users">>, FALSE),
    Layer("tourRouter", ToursPrefix, FALSE),
    Layer("reviewRouter", <<"api", "v1", "reviews">>, FALSE)>>

\* app.all('*', ...)
CatchAll == <<Layer("notFound", <<>>, FALSE)>>

\* app.use(globalErrorHandler): four arguments, an error handler
ErrorHandlers == <<Layer("globalErrorHandler", <<>>, TRUE)>>

IsLimiter(l) == l.name = "limiter"

NotLimiter(l) == ~IsLimiter(l)

\* mutant: the limiter is registered after the routers
AppStackLimiterLate(md) ==
  SelectSeq(Middlewares(md), NotLimiter) \o Routers
  \o SelectSeq(Middlewares(md), IsLimiter) \o CatchAll \o ErrorHandlers

\* mutant: the error handler is registered first
AppStackErrorHandlerFirst(md) ==
  ErrorHandlers \o Middlewares(md) \o Routers \o CatchAll

\* mutant: no catch-all route
AppStackNoCatchAll(md) == Middlewares(md) \o Routers \o ErrorHandlers

\* mutant: no error handler
AppStackNoErrorHandler(md) == Middlewares(md) \o Routers \o CatchAll

AppStack(md) == Middlewares(md) \o Routers \o CatchAll \o ErrorHandlers

\* the index of the next layer after `from` that express dispatches to: its
\* mount path prefixes the request path, and it is an error handler exactly
\* when an error is being propagated; 0 when the stack is exhausted
NextLayer(stack, from, path, hasErr) ==
  LET ok == {i \in (from + 1)..Len(stack) :
               /\ HasPrefix(path, stack[i].mount)
               /\ stack[i].isErr = hasErr}
  IN IF ok = {} THEN 0 ELSE CHOOSE i \in ok : \A j \in ok : i <= j

(***************************************************************************)
(* Route tables                                                            *)
(***************************************************************************)

H(f) == [fn |-> f, roles |-> {}]

\* mutant: the routes are declared without protect; a handler that only
\* calls next() stands in its place
ProtectOmitted == [fn |-> "aliasTopTours", roles |-> {}]

Protect == [fn |-> "protect", roles |-> {}]

RestrictTo(rs) == [fn |-> "restrictTo", roles |-> rs]

Route(m, p, st) == [method |-> m, pattern |-> p, stack |-> st]

\* routes/tourRoutes without access control
TourRoutes0 ==
  << Route("GET", <<"top-5-cheap">>, <<H("aliasTopTours"), H("getAllTours")>>),
     Route("GET", <<"tour-stats">>, <<H("getTourStats")>>),
     Route("GET", <<"monthly-plan", ":year">>, <<H("getMonthlyPlan")>>),
     Route("GET", <<>>, <<H("getAllTours")>>),
     Route("POST", <<>>, <<H("createTour")>>),
     Route("GET", <<":id">>, <<H("getTour")>>),
     Route("PATCH", <<":id">>, <<H("updateTour")>>),
     Route("DELETE", <<":id">>, <<H("deleteTour")>>) >>

\* mutant: role user is let in
AdminOrLeadGuideOrUser == RestrictTo({"admin", "lead-guide", "user"})

\* authController.restrictTo('admin', 'lead-guide')
AdminOrLeadGuide == RestrictTo({"admin", "lead-guide"})

\* routes/tourRoutes with protect / restrictTo; the nested review router under
\* /:tourId/reviews claims paths of two segments, which no request here has
TourRoutes1 ==
  << Route("GET", <<"top-5-cheap">>, <<H("aliasTopTours"), H("getAllTours")>>),
     Route("GET", <<"tour-stats">>, <<H("getTourStats")>>),
     Route("GET", <<"monthly-plan", ":year">>,
           <<Protect, RestrictTo({"admin", "lead-guide", "guide"}),
             H("getMonthlyPlan")>>),
     Route("GET", <<"tours-within", ":distance", "center", ":latlng", "unit", ":unit">>,
           <<H("getToursWithin")>>),
     Route("GET", <<"distances", ":latlng", "unit", ":unit">>, <<H("getDistances")>>),
     Route("GET", <<>>, <<H("getAllTours")>>),
     Route("POST", <<>>,
           <<Protect, AdminOrLeadGuide, H("createTour")>>),
     Route("GET", <<":id">>, <<H("getTour")>>),
     Route("PATCH", <<":id">>,
           <<Protect, AdminOrLeadGuide, H("updateTour")>>),
     Route("DELETE", <<":id">>,
           <<Protect, AdminOrLeadGuide, H("deleteTour")>>) >>

\* routes/viewRoutes: the overview page
ViewRoutes == << Route("GET", <<>>, <<H("getOverview")>>) >>

\* mutant: the table without access control is mounted in either case
TourRoutesAllOpen(t) == TourRoutes0

TourRoutes(t) == IF t = 0 THEN TourRoutes0 ELSE TourRoutes1

\* the route table of the router registered under a layer name
RouterTable(name, t) == IF name = "viewRouter" THEN ViewRoutes ELSE TourRoutes(t)

\* the route parameters of a pattern
Params == {":id", ":year", ":distance", ":latlng", ":unit"}

PatternMatches(pattern, sub) ==
  /\ Len(pattern) = Len(sub)
  /\ \A i \in 1..Len(pattern) : pattern[i] \in Params \/ pattern[i] = sub[i]

\* the first route after `from`, in registration order, that handles the
\* method on the path; 0 when none does
NextRoute(table, from, method, sub) ==
  LET ok == {i \in (from + 1)..Len(table) :
               /\ table[i].method = method
               /\ PatternMatches(table[i].pattern, sub)}
  IN IF ok = {} THEN 0 ELSE CHOOSE i \in ok : \A j \in ok : i <= j

(***************************************************************************)
(* Requests                                                                *)
(***************************************************************************)

NoTok == [present |-> FALSE, sig |-> FALSE, iat |-> 0, exp |-> 0, at |-> 0]

NoUser == [exists |-> FALSE, role |-> "none", changedAt |-> 0]

NoErr == [kind |-> "none", status |-> 0, msg |-> "none", operational |-> FALSE]

\* gone: the client dropped the connection before the response.
\* pc: "idle", "app" (layer idx of the application stack runs next), "route"
\* (handler hidx of route rt of the current router runs next), "loadUser"
\* (protect awaits the identity store), "done" (nothing more runs).
\* trace lists the stages that ran, raisedAt the position in trace of the stage
\* that raised a failure, res the responses written.
Idle ==
  [pc |-> "idle", idx |-> 0, rt |-> 0, hidx |-> 0,
   client |-> "none", method |-> "none", path |-> <<>>, body |-> 0,
   gone |-> FALSE,
   trace |-> <<>>, raisedAt |-> 0, ord |-> 0,
   tok |-> NoTok, found |-> NoUser, attached |-> FALSE,
   err |-> NoErr, res |-> <<>>]

Response(st, who, m, stk) == [status |-> st, by |-> who, msg |-> m, stack |-> stk]

\* new AppError(message, statusCode): operational
AppError(m, st) == [kind |-> "AppError", status |-> st, msg |-> m, operational |-> TRUE]

Stack == AppStack(mode)

LayerName(q) == IF q.pc = "app" THEN Stack[q.idx].name ELSE "none"

\* the handler a request in a route is about to run
Handler(q) == RouterTable(Stack[q.idx].name, routeTable)[q.rt].stack[q.hidx]

HandlerName(q) == IF q.pc = "route" THEN Handler(q).fn ELSE "none"

\* the request after `stage` ran
Ran(q, stage) == [q EXCEPT !.trace = Append(q.trace, stage)]

\* next(): dispatch to the next layer of the application stack
NextApp(q) ==
  LET i == NextLayer(Stack, q.idx, q.path, q.err.kind /= "none")
  IN IF i = 0 THEN [q EXCEPT !.pc = "done"]
     ELSE [q EXCEPT !.pc = "app", !.idx = i, !.rt = 0, !.hidx = 0]

\* next(err): the failure skips every remaining layer but the error handlers
Raise(q, e) == NextApp([q EXCEPT !.err = e, !.raisedAt = Len(q.trace)])

\* res.status(..).send/json(..): the response is written and nothing follows
Respond(q, resp) == [q EXCEPT !.pc = "done", !.res = Append(q.res, resp)]

\* a router looks for the next route claiming the request, else falls through
EnterRoute(q, from) ==
  LET name == Stack[q.idx].name
      i == NextRoute(RouterTable(name, routeTable), from, q.method,
                     Strip(q.path, Stack[q.idx].mount))
  IN IF i = 0 THEN NextApp(q)
     ELSE [q EXCEPT !.pc = "route", !.rt = i, !.hidx = 1]

\* next() inside a route: its next handler, else the router's next route
NextHandler(q) ==
  IF q.hidx < Len(RouterTable(Stack[q.idx].name, routeTable)[q.rt].stack)
  THEN [q EXCEPT !.pc = "route", !.hidx = q.hidx + 1]
  ELSE EnterRoute(q, q.rt)

(***************************************************************************)
(* Inputs                                                                  *)
(***************************************************************************)

Request(m, p) == [method |-> m, path |-> p]

ToursPath(sub) == ToursPrefix \o sub

Inputs ==
  { Request("GET", <<"img", "logo.png">>),
    Request("GET", <<>>),
    Request("GET", ToursPath(<<>>)),
    Request("POST", ToursPath(<<>>)),
    Request("GET", ToursPath(<<"5">>)),
    Request("PATCH", ToursPath(<<"5">>)),
    Request("DELETE", ToursPath(<<"5">>)),
    Request("GET", ToursPath(<<"top-5-cheap">>)),
    Request("GET", ToursPath(<<"tour-stats">>)),
    Request("GET", ToursPath(<<"monthly-plan", "2021">>)),
    Request("GET", ToursPath(<<"tours-within", "200", "center", "34,-118", "unit", "mi">>)),
    Request("GET", ToursPath(<<"distances", "34,-118", "unit", "mi">>)),
    Request("GET", <<"api", "v1", "nonexistent">>),
    Request("GET", <<"nonexistent">>) }

\* the requests of the rate-limiter specification
RateInputs ==
  { Request("GET", <<"img", "logo.png">>),
    Request("GET", <<"api", "v1", "nonexistent">>) }

\* body sizes in KB: within 10 KB, between 10 KB and the parser's default
\* limit, beyond the default limit
BodySizes == {1, TenKb + 1, DefaultLimitKb + 1}

\* the bodies a request may carry
Bodies(in) == IF in.method \in {"POST", "PATCH"} THEN BodySizes ELSE {0}

Times == 1..MaxTime

\* what protect finds in the Authorization header, and the time it looks
TokenInputs ==
  {NoTok} \cup
  { t \in [present : {TRUE}, sig : BOOLEAN, iat : Times, exp : Times, at : Times] :
      t.iat < t.exp /\ t.iat <= t.at }

\* what the identity store answers
UserInputs ==
  {NoUser} \cup
  { [exists |-> TRUE, role |-> ro, changedAt |-> ch] :
      ro \in Roles, ch \in 0..MaxTime }

\* what a resource handler does: answers, or raises a failure
Outcomes == {"ok", "AppError", "CastError", "Error"}

(***************************************************************************)
(* The stages                                                              *)
(***************************************************************************)

AtLayer(r, name) == req[r].pc = "app" /\ LayerName(req[r]) = name

AtHandler(r, name) == req[r].pc = "route" /\ HandlerName(req[r]) = name

Others == <<mode, routeTable, hits, issued, allowed, lifted, san, qry>>

RECURSIVE Load(_, _)
\* the hits the store holds for the clients of S
Load(h, S) ==
  IF S = {} THEN 0
  ELSE LET c == CHOOSE x \in S : TRUE IN h[c] + Load(h, S \ {c})

\* a request arrives, with a JSON body of b KB
Arrive(r, c, in, b) ==
  /\ req[r].pc = "idle"
  /\ HasPrefix(in.path, ApiPrefix) =>
       Load(hits, Clients) < (IF lifted = {} THEN Max + MaxOver ELSE MaxAfter)
  /\ req' = [req EXCEPT ![r] =
       NextApp([Idle EXCEPT !.client = c, !.method = in.method, !.path = in.path,
                            !.body = b])]
  /\ UNCHANGED Others

\* express.static(public): GET of an existing file is answered, all else passes
Static(r) ==
  /\ AtLayer(r, "static")
  /\ LET q == Ran(req[r], "static")
     IN req' = [req EXCEPT ![r] =
          IF q.method = "GET" /\ q.path \in StaticFiles
          THEN Respond(q, Response(200, "static", "file", FALSE))
          ELSE NextApp(q)]
  /\ UNCHANGED Others

\* a middleware that only annotates the request or response and calls next()
Pass(r, name) ==
  /\ AtLayer(r, name)
  /\ req' = [req EXCEPT ![r] = NextApp(Ran(req[r], name))]
  /\ UNCHANGED Others

Morgan(r) == Pass(r, "morgan")

Helmet(r) == Pass(r, "helmet")

\* mutant: the Max-th request is already rejected
OverLimitAtMax(current) == current >= Max

\* the limiter's verdict on the hit count the store returned
OverLimit(current) == current > Max

\* mutant: a hit past the maximum is not counted
IncrUnlessFull(h) == IF h >= Max THEN h ELSE h + 1

\* the memory store's incr: every hit is counted
Incr(h) == h + 1

\* rateLimit: the store counts the hit, then the request is admitted or the
\* limiter's own handler answers 429 with the configured message
Limiter(r) ==
  /\ AtLayer(r, "limiter")
  /\ LET c == req[r].client
         current == Incr(hits[c])
         q == [Ran(req[r], "limiter") EXCEPT !.ord = issued[c] + 1]
     IN /\ hits' = [hits EXCEPT ![c] = current]
        /\ issued' = [issued EXCEPT ![c] = issued[c] + 1]
        /\ allowed' = [allowed EXCEPT ![c] = IF OverLimit(current) THEN @ ELSE @ + 1]
        /\ req' = [req EXCEPT ![r] =
             IF OverLimit(current)
             THEN Respond([q EXCEPT !.raisedAt = Len(q.trace)],
                          Response(TooManyStatus, "limiter", "tooManyRequests", FALSE))
             ELSE NextApp(q)]
  /\ UNCHANGED <<mode, routeTable, lifted, san, qry>>

\* mutant: the counts of the clients over the maximum are kept
ResetAdmitted(h) == [c \in Clients |-> IF h[c] > Max THEN h[c] ELSE 0]

\* the memory store's resetAll: no key is left
Reset(h) == [c \in Clients |-> 0]

\* the store's interval timer (setInterval(resetAll, windowMs)): every window
\* length, the counts of all clients are dropped
ResetAll ==
  /\ \E c \in Clients : hits[c] > 0
  /\ hits' = Reset(hits)
  /\ issued' = Reset(issued)
  /\ allowed' = Reset(allowed)
  /\ lifted' = {c \in Clients : hits[c] > Max}
  /\ UNCHANGED <<mode, routeTable, req, san, qry>>

\* mutant: the hit of a request that ends without a response is uncounted
UncountOnAbandon(h) == IF h > 0 THEN h - 1 ELSE 0

\* the limiter's options leave skipFailedRequests off: the count of a request
\* that ends without a response stays
AfterAbandon(h) == h

\* the client drops the connection while its request is in flight: nothing
\* more runs for the request, and no response is written
Abandon(r) ==
  /\ req[r].pc \in {"app", "route", "loadUser"}
  /\ LET q == req[r]
     IN /\ req' = [req EXCEPT ![r] = [q EXCEPT !.pc = "done", !.gone = TRUE]]
        /\ hits' = IF q.ord > 0
                   THEN [hits EXCEPT ![q.client] = AfterAbandon(@)]
                   ELSE hits
  /\ UNCHANGED <<mode, routeTable, issued, allowed, lifted, san, qry>>

\* the options object app.js hands to express.json: the key is spelled lmit
JsonOptions == [lmit |-> TenKb]

\* body-parser: options.limit, or the default when the options have none
JsonLimit(opts) ==
  IF "limit" \in DOMAIN opts THEN opts.limit ELSE DefaultLimitKb

\* raw-body's failure on a body over the limit: status 413, not an AppError
PayloadTooLarge ==
  [kind |-> "PayloadTooLargeError", status |-> 413, msg |-> "entityTooLarge",
   operational |-> FALSE]

\* express.json(options): a body over the limit is refused with next(err), any
\* other is parsed into req.body
Json(r) ==
  /\ AtLayer(r, "json")
  /\ LET q == Ran(req[r], "json")
     IN req' = [req EXCEPT ![r] =
          IF q.body > JsonLimit(JsonOptions) THEN Raise(q, PayloadTooLarge)
          ELSE NextApp(q)]
  /\ UNCHANGED Others

MongoSanitize(r) == Pass(r, "mongoSanitize")

Xss(r) == Pass(r, "xss")

Hpp(r) == Pass(r, "hpp")

RequestTime(r) == Pass(r, "requestTime")

\* app.use(mount, router): the router dispatches to its routes
Router(r, name) ==
  /\ AtLayer(r, name)
  /\ req' = [req EXCEPT ![r] = EnterRoute(Ran(req[r], name), 0)]
  /\ UNCHANGED Others

ViewRouter(r) == Router(r, "viewRouter")

TourRouter(r) == Router(r, "tourRouter")

\* tourController.aliasTopTours: presets the query, then next()
AliasTopTours(r) ==
  /\ AtHandler(r, "aliasTopTours")
  /\ req' = [req EXCEPT ![r] = NextHandler(Ran(req[r], "aliasTopTours"))]
  /\ UNCHANGED Others

(***************************************************************************)
(* Credential Verifier and Authorization Guard (controllers/authController)*)
(***************************************************************************)

\* mutant: the expiry is not looked at
ExpiredIgnored(t) == FALSE

Expired(t) == t.at >= t.exp

\* mutant: the credential change is not looked at
ChangedAfterIgnored(u, t) == FALSE

\* the principal's credentials were invalidated after the token was issued
ChangedAfter(u, t) == u.changedAt > t.iat

\* steps 1-3: token present, signature valid, not expired
VerifyFailure(t) ==
  IF ~t.present THEN AppError("notAuthenticated", 401)
  ELSE IF ~t.sig THEN AppError("invalidToken", 401)
  ELSE IF Expired(t) THEN AppError("sessionExpired", 401)
  ELSE NoErr

\* steps 4-5: the principal still exists, credentials unchanged since issue
UserFailure(u, t) ==
  IF ~u.exists THEN AppError("userGone", 401)
  ELSE IF ChangedAfter(u, t) THEN AppError("reAuthenticate", 401)
  ELSE NoErr

ProtectVerify(r) ==
  /\ AtHandler(r, "protect")
  /\ \E t \in TokenInputs :
       LET q == [Ran(req[r], "protect") EXCEPT !.tok = t]
           e == VerifyFailure(t)
       IN req' = [req EXCEPT ![r] =
            IF e /= NoErr THEN Raise(q, e) ELSE [q EXCEPT !.pc = "loadUser"]]
  /\ UNCHANGED Others

ProtectLoadUser(r) ==
  /\ req[r].pc = "loadUser"
  /\ \E u \in UserInputs :
       LET q == [req[r] EXCEPT !.found = u]
           e == UserFailure(u, q.tok)
       IN req' = [req EXCEPT ![r] =
            IF e /= NoErr THEN Raise(q, e)
            ELSE NextHandler([q EXCEPT !.attached = TRUE])]
  /\ UNCHANGED Others

\* the guard's verdict on a principal's role
Permitted(roles, role) == roles = {} \/ role \in roles

\* restrictTo(...roles); without a principal reading its role faults
Restrict(r) ==
  /\ AtHandler(r, "restrictTo")
  /\ LET q == Ran(req[r], "restrictTo")
     IN req' = [req EXCEPT ![r] =
          IF ~q.attached
          THEN Raise(q, [kind |-> "Error", status |-> 0, msg |-> "internalDetail",
                          operational |-> FALSE])
          ELSE IF Permitted(Handler(req[r]).roles, q.found.role)
          THEN NextHandler(q)
          ELSE Raise(q, AppError("forbidden", 403))]
  /\ UNCHANGED Others

(***************************************************************************)
(* Resource handlers (controllers/tourController, viewsController)         *)
(***************************************************************************)

ResourceHandlers ==
  {"getAllTours", "getTour", "createTour", "updateTour", "deleteTour",
   "getTourStats", "getMonthlyPlan", "getToursWithin", "getDistances",
   "getOverview"}

\* the failure a handler raises: an AppError, a data-layer fault of a known
\* kind, or an unexpected fault
Fault(o) ==
  IF o = "AppError" THEN AppError("noDocument", 404)
  ELSE IF o = "CastError"
  THEN [kind |-> "CastError", status |-> 0, msg |-> "castDetail", operational |-> FALSE]
  ELSE [kind |-> "Error", status |-> 0, msg |-> "internalDetail", operational |-> FALSE]

ResourceHandler(r) ==
  /\ req[r].pc = "route"
  /\ HandlerName(req[r]) \in ResourceHandlers
  /\ \E o \in Outcomes :
       LET fn == HandlerName(req[r])
           q == Ran(req[r], fn)
       IN req' = [req EXCEPT ![r] =
            IF o = "ok" THEN Respond(q, Response(200, fn, "data", FALSE))
            ELSE Raise(q, Fault(o))]
  /\ UNCHANGED Others

(***************************************************************************)
(* Not found and the error handler                                         *)
(***************************************************************************)

\* app.all('*'): next(new AppError("Can't find ... on this server.", 404))
NotFound(r) ==
  /\ AtLayer(r, "notFound")
  /\ req' = [req EXCEPT ![r] =
       Raise(Ran(req[r], "notFound"), AppError("notFound", NotFoundStatus))]
  /\ UNCHANGED Others

\* the known data-layer faults become operational client faults
Classify(e) ==
  IF e.kind = "CastError" THEN AppError("invalidId", 400) ELSE e

StatusOf(e) == IF e.status = 0 THEN 500 ELSE e.status

\* verbose rendering: message and stack, whatever the failure
SendErrorDev(e) == Response(StatusOf(e), "globalErrorHandler", e.msg, TRUE)

\* mutant: every failure is rendered verbatim
SendErrorProdVerbatim(e) == Response(StatusOf(e), "globalErrorHandler", e.msg, FALSE)

\* minimal rendering: operational failures verbatim, anything else generic
SendErrorProd(e) ==
  IF e.operational
  THEN Response(StatusOf(e), "globalErrorHandler", e.msg, FALSE)
  ELSE Response(500, "globalErrorHandler", "generic", FALSE)

GlobalErrorHandler(r) ==
  /\ AtLayer(r, "globalErrorHandler")
  /\ LET q == Ran(req[r], "globalErrorHandler")
     IN req' = [req EXCEPT ![r] =
          Respond(q, IF mode = "development" THEN SendErrorDev(q.err)
                     ELSE SendErrorProd(Classify(q.err)))]
  /\ UNCHANGED Others

\* the exchange is over; the slot takes the next request
Recycle(r) ==
  /\ req[r].pc = "done"
  /\ req' = [req EXCEPT ![r] = Idle]
  /\ UNCHANGED Others

(***************************************************************************)
(* The sanitizers on a structured input (req.body, req.query, req.params)  *)
(***************************************************************************)

\* strings are sequences of characters
Alphabet == {"$", ".", "<", "&", "a"}

Str(n) == UNION {[1..k -> Alphabet] : k \in 0..n}

\* an object holds fields; a field's value is a string or an object of fields
\* with string values
Leaf(k, v) == [key |-> k, val |-> v]

Field(k, v) == [key |-> k, isObj |-> FALSE, val |-> v, sub |-> <<>>]

ObjField(k, inner) == [key |-> k, isObj |-> TRUE, val |-> <<>>, sub |-> inner]

Leaves == {<<>>} \cup { <<Leaf(k, v)>> : k \in Str(1), v \in Str(1) }

Docs ==
  {<<>>}
  \cup { <<Field(k, v)>> : k \in Str(MaxLen), v \in Str(MaxLen) }
  \cup { <<ObjField(k, inner)>> : k \in Str(MaxLen), inner \in Leaves }

\* mongoSanitize: TEST_REGEX = /^\$|\./ on a key
Prohibited(k) ==
  \/ Len(k) > 0 /\ k[1] = "$"
  \/ \E i \in 1..Len(k) : k[i] = "."

Allowed(f) == ~Prohibited(f.key)

\* a field with a prohibited key is deleted, the other objects are walked
SanitizeDoc(d) ==
  LET kept == SelectSeq(d, Allowed)
  IN [i \in 1..Len(kept) |-> [kept[i] EXCEPT !.sub = SelectSeq(@, Allowed)]]

\* mutant: & is escaped as well
EscapeCharAndAmp(ch) ==
  IF ch = "<" THEN <<"&", "l", "t", ";">>
  ELSE IF ch = "&" THEN <<"&", "a", "m", "p", ";">>
  ELSE <<ch>>

\* xss-filters inHTMLData: < becomes &lt;
EscapeChar(ch) == IF ch = "<" THEN <<"&", "l", "t", ";">> ELSE <<ch>>

RECURSIVE EscapeStr(_)
EscapeStr(str) ==
  IF str = <<>> THEN <<>> ELSE EscapeChar(Head(str)) \o EscapeStr(Tail(str))

CleanLeaf(f) == Leaf(EscapeStr(f.key), EscapeStr(f.val))

\* xss-clean: the filter runs over the object's JSON text, so over every key
\* and every string value
CleanDoc(d) ==
  [i \in 1..Len(d) |->
     [key |-> EscapeStr(d[i].key), isObj |-> d[i].isObj,
      val |-> EscapeStr(d[i].val),
      sub |-> [j \in 1..Len(d[i].sub) |-> CleanLeaf(d[i].sub[j])]]]

\* no input is in the sanitizers
NoSan == [pc |-> 0, x |-> <<>>, cur |-> <<>>, once |-> <<>>]

\* app.use(mongoSanitize()) on the input, a first and a second time
ApplyMongoSanitize ==
  /\ san.pc \in {1, 3}
  /\ san' = [san EXCEPT !.pc = @ + 1, !.cur = SanitizeDoc(@)]
  /\ UNCHANGED <<mode, routeTable, hits, issued, allowed, lifted, req, qry>>

\* app.use(xss()) on the input, a first and a second time
ApplyXss ==
  /\ san.pc \in {2, 4}
  /\ LET out == CleanDoc(san.cur)
     IN san' = [san EXCEPT !.pc = @ + 1, !.cur = out,
                           !.once = IF san.pc = 2 THEN out ELSE @]
  /\ UNCHANGED <<mode, routeTable, hits, issued, allowed, lifted, req, qry>>

(***************************************************************************)
(* The query string through the parser and hpp (req.query)                 *)
(***************************************************************************)

\* hpp({ whitelist: [...] })
Whitelist ==
  {"duration", "ratingsQuantity", "ratingsAverage", "maxGroupSize",
   "difficulty", "price"}

QueryNames == {"price", "difficulty", "sort"}

QueryValues == {"1", "2"}

Pair(n, v) == [name |-> n, val |-> v]

\* the query strings: name=value pairs in the order supplied
Queries ==
  UNION { [1..k -> {Pair(n, v) : n \in QueryNames, v \in QueryValues}] :
          k \in 0..MaxPairs }

\* a parameter of req.query: a string, or an array of strings
Scalar(v) == [isArr |-> FALSE, vals |-> <<v>>]

Array(vs) == [isArr |-> TRUE, vals |-> vs]

RECURSIVE ParseQuery(_, _)
\* the query parser: the first value of a name is a string, every further one
\* is appended, turning the parameter into an array
ParseQuery(raw, acc) ==
  IF raw = <<>> THEN acc
  ELSE LET p == Head(raw)
           now == IF p.name \in DOMAIN acc
                  THEN Array(Append(acc[p.name].vals, p.val))
                  ELSE Scalar(p.val)
       IN ParseQuery(Tail(raw),
                     [n \in DOMAIN acc \cup {p.name} |->
                        IF n = p.name THEN now ELSE acc[n]])

\* mutant: of several values the first is kept
KeptFirst(vs) == vs[1]

\* of several values hpp keeps the last
Kept(vs) == vs[Len(vs)]

\* hpp on req.query: every array parameter is put aside and replaced by one
\* of its values, then the whitelisted ones are put back
HppQuery(query, whitelist) ==
  [n \in DOMAIN query |->
     IF query[n].isArr /\ n \notin whitelist
     THEN Scalar(Kept(query[n].vals))
     ELSE query[n]]

\* no query string is in the parser
NoQry == [pc |-> 0, raw |-> <<>>, query |-> <<>>]

\* express parses the query string into req.query
ApplyQueryParser ==
  /\ qry.pc = 1
  /\ qry' = [qry EXCEPT !.pc = 2, !.query = ParseQuery(qry.raw, <<>>)]
  /\ UNCHANGED <<mode, routeTable, hits, issued, allowed, lifted, req, san>>

\* app.use(hpp({ whitelist })) on req.query
ApplyHpp ==
  /\ qry.pc = 2
  /\ qry' = [qry EXCEPT !.pc = 3, !.query = HppQuery(qry.query, Whitelist)]
  /\ UNCHANGED <<mode, routeTable, hits, issued, allowed, lifted, req, san>>

(***************************************************************************)
(* Specifications                                                          *)
(***************************************************************************)

\* the slots in use: requests are followed one at a time, since the stages of
\* different requests share nothing but the limiter's store, which each hit
\* updates in one step
Serial == {"r1"}

\* the application after start-up
Started ==
  /\ mode \in Modes
  /\ routeTable \in {0, 1}
  /\ lifted = {}
  /\ req = [r \in Reqs |-> Idle]
  /\ san = NoSan
  /\ qry = NoQry

\* the pipeline, late in a window: one client is a request short of its quota
\* (SpecRate reaches this state from start-up), so that the limiter both
\* admits and rejects
Init ==
  /\ Started
  /\ hits = [c \in Clients |-> IF c = "c1" THEN Max - 1 ELSE 0]
  /\ issued = hits
  /\ allowed = hits

Next ==
  \E r \in Serial :
    \/ \E c \in Clients, in \in Inputs : \E b \in Bodies(in) : Arrive(r, c, in, b)
    \/ Static(r)
    \/ Morgan(r)
    \/ Helmet(r)
    \/ Limiter(r)
    \/ Json(r)
    \/ MongoSanitize(r)
    \/ Xss(r)
    \/ Hpp(r)
    \/ RequestTime(r)
    \/ ViewRouter(r)
    \/ TourRouter(r)
    \/ AliasTopTours(r)
    \/ ProtectVerify(r)
    \/ ProtectLoadUser(r)
    \/ Restrict(r)
    \/ ResourceHandler(r)
    \/ NotFound(r)
    \/ GlobalErrorHandler(r)
    \/ Recycle(r)

Spec == Init /\ [][Next]_vars

\* the rate limiter over whole windows, from start-up; the requests of
\* RateInputs reach no tour route, whichever table is mounted
InitRate ==
  /\ Started
  /\ routeTable = 1
  /\ hits = [c \in Clients |-> 0]
  /\ issued = hits
  /\ allowed = hits

NextRate ==
  \/ ResetAll
  \/ \E r \in Serial :
       \/ \E c \in Clients, in \in RateInputs : \E b \in Bodies(in) :
            Arrive(r, c, in, b)
       \/ Static(r)
       \/ Morgan(r)
       \/ Helmet(r)
       \/ Limiter(r)
       \/ Json(r)
       \/ MongoSanitize(r)
       \/ Xss(r)
       \/ Hpp(r)
       \/ RequestTime(r)
       \/ ViewRouter(r)
       \/ NotFound(r)
       \/ GlobalErrorHandler(r)
       \/ Recycle(r)

SpecRate == InitRate /\ [][NextRate]_vars

\* requests in flight at the same time, late in a window; the window's timer
\* does not fire
ConcInputs == { Request("GET", <<"api", "v1", "nonexistent">>) }

InitConc ==
  /\ Init
  /\ mode = "production"
  /\ routeTable = 1

NextConc ==
  \E r \in Reqs :
    \/ \E c \in Clients, in \in ConcInputs : \E b \in Bodies(in) : Arrive(r, c, in, b)
    \/ Static(r)
    \/ Helmet(r)
    \/ Limiter(r)
    \/ Json(r)
    \/ MongoSanitize(r)
    \/ Xss(r)
    \/ Hpp(r)
    \/ RequestTime(r)
    \/ ViewRouter(r)
    \/ NotFound(r)
    \/ GlobalErrorHandler(r)
    \/ Abandon(r)
    \/ Recycle(r)

SpecConc == InitConc /\ [][NextConc]_vars

\* the sanitizers alone, on every structured input; they read nothing else
InitSan ==
  /\ mode = "production"
  /\ routeTable = 1
  /\ hits = [c \in Clients |-> 0]
  /\ issued = hits
  /\ allowed = hits
  /\ lifted = {}
  /\ req = [r \in Reqs |-> Idle]
  /\ qry = NoQry
  /\ \E d \in Docs : san = [pc |-> 1, x |-> d, cur |-> d, once |-> <<>>]

NextSan == ApplyMongoSanitize \/ ApplyXss

SpecSan == InitSan /\ [][NextSan]_vars

\* the query parser and hpp alone, on every query string
InitHpp ==
  /\ mode = "production"
  /\ routeTable = 1
  /\ hits = [c \in Clients |-> 0]
  /\ issued = hits
  /\ allowed = hits
  /\ lifted = {}
  /\ req = [r \in Reqs |-> Idle]
  /\ san = NoSan
  /\ \E raw \in Queries : qry = [pc |-> 1, raw |-> raw, query |-> <<>>]

NextHpp == ApplyQueryParser \/ ApplyHpp

SpecHpp == InitHpp /\ [][NextHpp]_vars

(***************************************************************************)
(* Properties                                                              *)
(***************************************************************************)

\* the position of a stage in a trace, 0 when it did not run
Pos(trace, stage) ==
  LET at == {i \in 1..Len(trace) : trace[i] = stage}
  IN IF at = {} THEN 0 ELSE CHOOSE i \in at : \A j \in at : i <= j

RanStage(q, stage) == Pos(q.trace, stage) > 0

\* a ran, and b ran after it
Before(q, a, b) == Pos(q.trace, a) > 0 /\ Pos(q.trace, a) < Pos(q.trace, b)

Times1(q, stage) == Cardinality({i \in 1..Len(q.trace) : q.trace[i] = stage}) = 1

TourHandlers ==
  {"getAllTours", "getTour", "createTour", "updateTour", "deleteTour",
   "getTourStats", "getMonthlyPlan", "getToursWithin", "getDistances"}

RanHandler(q) == \E h \in TourHandlers \cup {"getOverview"} : RanStage(q, h)

RejectedByLimiter(q) == \E i \in 1..Len(q.res) : q.res[i].by = "limiter"

AdmittedByLimiter(q) == RanStage(q, "limiter") /\ ~RejectedByLimiter(q)

\* C1: within a window, each of a client's first Max requests to /api is
\* admitted by the limiter, and the (Max+1)-th is rejected with status 429.
C1_QuotaThenReject ==
  \A r \in Reqs :
    LET q == req[r]
    IN q.ord > 0 =>
         /\ q.ord <= Max => AdmittedByLimiter(q)
         /\ q.ord = Max + 1 =>
              /\ q.pc = "done"
              /\ Len(q.res) = 1
              /\ q.res[1].by = "limiter"
              /\ q.res[1].status = 429

C1_Witness ==
  \E r \in Reqs :
    /\ req[r].ord = Max + 1
    /\ RejectedByLimiter(req[r])
    /\ req[r].res[1].status = 429

\* the request a slot carries
In(q) == Request(q.method, q.path)

\* the routes part_001 declares behind protect and restrictTo, with the roles
\* and the handler each declares
AdminRoutes ==
  { Request("POST", ToursPath(<<>>)),
    Request("PATCH", ToursPath(<<"5">>)),
    Request("DELETE", ToursPath(<<"5">>)) }

PlanRoute == Request("GET", ToursPath(<<"monthly-plan", "2021">>))

ProtectedRoute(q) == routeTable = 1 /\ In(q) \in AdminRoutes \cup {PlanRoute}

DeclaredRoles(in) ==
  IF in \in AdminRoutes THEN {"admin", "lead-guide"}
  ELSE {"admin", "lead-guide", "guide"}

DeclaredHandler(in) ==
  IF in.method = "POST" THEN "createTour"
  ELSE IF in.method = "PATCH" THEN "updateTour"
  ELSE IF in.method = "DELETE" THEN "deleteTour"
  ELSE "getMonthlyPlan"

\* the stages that ran after the one that raised the failure
AfterFailure(q) == SubSeq(q.trace, q.raisedAt + 1, Len(q.trace))

RaisedBy(q) == IF q.raisedAt > 0 THEN q.trace[q.raisedAt] ELSE "none"

\* C2: when a tour handler runs for an API request, the limiter admitted the
\* request first, then the sanitizers ran, then the router matched, then (on
\* a protected route) protect and restrictTo ran in that order, each once.
C2_PipelineOrder ==
  \A r \in Reqs : \A h \in TourHandlers :
    LET q == req[r]
    IN RanStage(q, h) =>
         /\ AdmittedByLimiter(q)
         /\ Before(q, "limiter", "mongoSanitize")
         /\ Before(q, "mongoSanitize", "xss")
         /\ Before(q, "xss", "hpp")
         /\ Before(q, "hpp", "tourRouter")
         /\ Before(q, "tourRouter", h)
         /\ \A st \in {"limiter", "mongoSanitize", "xss", "hpp", "tourRouter", h} :
              Times1(q, st)
         /\ ProtectedRoute(q) =>
              /\ Before(q, "tourRouter", "protect")
              /\ Before(q, "protect", "restrictTo")
              /\ Before(q, "restrictTo", h)
              /\ Times1(q, "protect") /\ Times1(q, "restrictTo")

C2_Witness ==
  \E r \in Reqs : routeTable = 1 /\ RanStage(req[r], "createTour")

\* C3 as stated: after any stage raises a failure nothing runs but the error
\* handler, which is the request's next and last stage.
C3_FailureEndsAtNormalizer ==
  \A r \in Reqs :
    LET q == req[r]
    IN q.raisedAt > 0 =>
         /\ AfterFailure(q) \in {<<>>, <<"globalErrorHandler">>}
         /\ q.pc = "done" => AfterFailure(q) = <<"globalErrorHandler">>

\* C3 amended: after protect, restrictTo, a handler or the catch-all raises a
\* failure, the error handler is the next and last stage; after the limiter
\* rejects, no stage runs at all, the error handler included.
C3_FailureSkipsTheRest ==
  \A r \in Reqs :
    LET q == req[r]
    IN q.raisedAt > 0 =>
         IF RaisedBy(q) = "limiter"
         THEN q.pc = "done" /\ AfterFailure(q) = <<>>
         ELSE /\ AfterFailure(q) \in {<<>>, <<"globalErrorHandler">>}
              /\ q.pc = "done" => AfterFailure(q) = <<"globalErrorHandler">>

C3_Witness ==
  \E r \in Reqs :
    /\ req[r].pc = "done"
    /\ RaisedBy(req[r]) = "restrictTo"
    /\ AfterFailure(req[r]) = <<"globalErrorHandler">>

\* C4: on the routes declared with roles {admin, lead-guide}, a principal of
\* role user is rejected (403) and the handler does not run, a principal of
\* role admin passes the guard and the handler runs; on every protected route
\* the handler runs only for a principal whose role the route declares.
C4_RoleGuard ==
  \A r \in Reqs :
    LET q == req[r]
    IN /\ (routeTable = 1 /\ In(q) \in AdminRoutes /\ q.attached) =>
            /\ q.found.role = "user" =>
                 /\ ~RanHandler(q)
                 /\ RanStage(q, "restrictTo") => q.err = AppError("forbidden", 403)
                 /\ q.pc = "done" => Len(q.res) = 1 /\ q.res[1].status = 403
            /\ q.found.role = "admin" =>
                 /\ q.err.msg /= "forbidden"
                 /\ q.pc = "done" => RanStage(q, DeclaredHandler(In(q)))
       /\ (ProtectedRoute(q) /\ RanHandler(q)) =>
            /\ q.attached
            /\ q.found.role \in DeclaredRoles(In(q))

C4_Witness ==
  \E r \in Reqs :
    /\ routeTable = 1
    /\ In(req[r]) \in AdminRoutes
    /\ req[r].attached
    /\ req[r].found.role = "user"
    /\ req[r].pc = "done"
    /\ req[r].res[1].status = 403

\* the requests no route claims
Unmatched == { Request("GET", <<"api", "v1", "nonexistent">>),
               Request("GET", <<"nonexistent">>) }

NotFoundResponse(resp) ==
  /\ resp.status = 404
  /\ resp.msg = "notFound"
  /\ resp.by = "globalErrorHandler"

C6_OnlyNormalizerRenders ==
  \A r \in Reqs :
    LET q == req[r]
    IN q.raisedAt > 0 => \A i \in 1..Len(q.res) : q.res[i].by = "globalErrorHandler"

\* C6 amended: the response of a failed request is written once, by the error
\* handler, except a rate-limit rejection, whose 429 response the limiter
\* writes itself.
C6_NormalizerOrLimiterRenders ==
  \A r \in Reqs :
    LET q == req[r]
    IN q.raisedAt > 0 =>
         IF RaisedBy(q) = "limiter"
         THEN q.res = <<Response(429, "limiter", "tooManyRequests", FALSE)>>
         ELSE /\ \A i \in 1..Len(q.res) : q.res[i].by = "globalErrorHandler"
              /\ q.pc = "done" => Len(q.res) = 1

C6_Witness ==
  \E r \in Reqs :
    /\ req[r].pc = "done"
    /\ RaisedBy(req[r]) \in TourHandlers
    /\ Len(req[r].res) = 1
    /\ req[r].res[1].by = "globalErrorHandler"

AuthFailure(e) == e.kind = "AppError" /\ e.status = 401

\* C7: when protect reads a token whose expiry is in the past, the request
\* fails authentication (401) and neither restrictTo nor a handler runs,
\* whether the signature is valid or not.
C7_ExpiredTokenFails ==
  \A r \in Reqs :
    LET q == req[r]
    IN (q.tok.present /\ q.tok.exp < q.tok.at) =>
         /\ AuthFailure(q.err)
         /\ ~RanStage(q, "restrictTo")
         /\ ~RanHandler(q)
         /\ q.pc = "done" => Len(q.res) = 1 /\ q.res[1].status = 401

C7_Witness ==
  \E r \in Reqs :
    /\ req[r].tok.present /\ req[r].tok.sig
    /\ req[r].tok.exp < req[r].tok.at
    /\ req[r].pc = "done"
    /\ req[r].res[1].status = 401

\* C8: when the token is correctly signed and unexpired and the principal's
\* credentials changed after the token was issued, the request fails
\* authentication with "re-authenticate" and no handler runs.
C8_StaleTokenFails ==
  \A r \in Reqs :
    LET q == req[r]
    IN (/\ q.tok.present /\ q.tok.sig /\ q.tok.at < q.tok.exp
        /\ q.found.exists /\ q.found.changedAt > q.tok.iat) =>
         /\ AuthFailure(q.err) /\ q.err.msg = "reAuthenticate"
         /\ ~RanStage(q, "restrictTo")
         /\ ~RanHandler(q)
         /\ q.pc = "done" =>
              /\ Len(q.res) = 1
              /\ q.res[1].status = 401
              /\ q.res[1].msg = "reAuthenticate"

C8_Witness ==
  \E r \in Reqs :
    /\ req[r].tok.present /\ req[r].tok.sig /\ req[r].tok.at < req[r].tok.exp
    /\ req[r].found.exists /\ req[r].found.changedAt > req[r].tok.iat
    /\ req[r].tok.at > req[r].found.changedAt
    /\ req[r].pc = "done"
    /\ req[r].res[1].msg = "reAuthenticate"

\* C9: in production an unexpected (non-operational) fault of a resource
\* handler is answered 500 with the generic message, without the fault's own
\* message and without a stack trace.
C9_ProductionHidesFaults ==
  \A r \in Reqs :
    LET q == req[r]
    IN (/\ mode = "production" /\ q.pc = "done"
        /\ q.err.kind = "Error" /\ RaisedBy(q) \in ResourceHandlers) =>
         /\ Len(q.res) = 1
         /\ q.res[1].status = 500
         /\ q.res[1].msg = "generic"
         /\ q.res[1].msg /= q.err.msg
         /\ ~q.res[1].stack

C9_Witness ==
  \E r \in Reqs :
    /\ mode = "production" /\ req[r].pc = "done"
    /\ req[r].err.kind = "Error" /\ RaisedBy(req[r]) \in ResourceHandlers
    /\ req[r].res[1].msg = "generic"

C11_BodyCapEnforced ==
  \A r \in Reqs :
    LET q == req[r]
    IN q.body > TenKb =>
         /\ ~RanStage(q, "mongoSanitize")
         /\ ~RanStage(q, "xss")
         /\ ~RanHandler(q)

\* what the code does instead: the cap in force is the parser's default
C11_DefaultCapEnforced ==
  \A r \in Reqs :
    LET q == req[r]
    IN q.body > DefaultLimitKb =>
         /\ ~RanStage(q, "mongoSanitize")
         /\ ~RanStage(q, "xss")
         /\ ~RanHandler(q)

C11_Witness ==
  \E r \in Reqs :
    /\ req[r].body > DefaultLimitKb
    /\ req[r].pc = "done"
    /\ RaisedBy(req[r]) = "json"

OutsideApi(q) == q.pc /= "idle" /\ ~HasPrefix(q.path, ApiPrefix)

\* C12: a step of a request to a path outside /api (a static file, a view, an
\* unmatched path) leaves every client's hit count unchanged, the limiter
\* never runs for such a request and never rejects it, whatever the counts
\* are.
C12_LimiterOnlyOnApi ==
  [][\A r \in Reqs :
       (req'[r] /= req[r] /\ OutsideApi(req'[r])) =>
         /\ hits' = hits
         /\ ~RanStage(req'[r], "limiter")
         /\ ~RejectedByLimiter(req'[r])
         /\ req'[r].ord = 0]_vars

\* a client over its quota is served a view
C12_Witness ==
  \E r \in Reqs :
    /\ In(req[r]) = Request("GET", <<>>)
    /\ hits[req[r].client] > Max
    /\ req[r].pc = "done"
    /\ req[r].res = <<Response(200, "getOverview", "data", FALSE)>>

\* the limiter has just decided on request r
LimiterStep(r) == RanStage(req'[r], "limiter") /\ ~RanStage(req[r], "limiter")

\* C13 (as stated): no client's count ever exceeds the maximum, and a
\* rejection leaves the stored counts unchanged.
C13_CountAtMostMax ==
  [][/\ \A c \in Clients : hits'[c] <= Max
     /\ \A r \in Reqs :
          (LimiterStep(r) /\ RejectedByLimiter(req'[r])) => hits' = hits]_vars

\* C13 amended: every request the limiter decides on is counted, admitted or
\* rejected: its client's count grows by one, and the request is rejected
\* exactly when the new count exceeds the maximum; so the requests admitted
\* in a window are at most the maximum, while the count itself goes past it.
C13_EveryHitCounted ==
  [][\A r \in Reqs :
       LET c == req'[r].client
       IN /\ LimiterStep(r) =>
               /\ hits'[c] = hits[c] + 1
               /\ \A d \in Clients \ {c} : hits'[d] = hits[d]
               /\ RejectedByLimiter(req'[r]) <=> hits'[c] > Max
          /\ AdmittedByLimiter(req'[r]) => req'[r].ord <= Max]_vars

\* a second rejection in a window: the count is two past the maximum
C13_Witness ==
  \E r \in Reqs :
    /\ RejectedByLimiter(req[r])
    /\ req[r].ord = Max + 2
    /\ hits[req[r].client] = Max + 2

\* the interval timer has just fired
TimerStep == req' = req /\ hits' /= hits

\* C14: when the window length has elapsed the counts of all clients are
\* dropped, those of rejected clients included, and the first request of a
\* client after that is counted as 1 and admitted.
C14_RejectionNotPermanent ==
  [][/\ TimerStep => \A c \in Clients : hits'[c] = 0
     /\ \A r \in Reqs :
          LET q == req'[r]
          IN /\ (LimiterStep(r) /\ hits[q.client] = 0) =>
                  /\ hits'[q.client] = 1
                  /\ q.ord = 1
                  /\ AdmittedByLimiter(q)
             /\ (q.ord = 1 /\ q.client \in lifted') => AdmittedByLimiter(q)]_vars

\* a client rejected in the last window is admitted in the new one
C14_Witness ==
  \E r \in Reqs :
    /\ req[r].client \in lifted
    /\ req[r].ord = 1
    /\ hits[req[r].client] = 1
    /\ AdmittedByLimiter(req[r])
    /\ req[r].pc = "done"

\* r is past the limiter in the current window of its client
Counted(r) == req[r].ord > 0 /\ req[r].ord <= issued[req[r].client]

\* C15: with requests of one client in flight at the same time, in every
\* interleaving of their steps: the requests admitted in the window are at
\* most the maximum, the count equals the number of requests the limiter
\* counted, no two requests were given the same count, and a request is
\* admitted exactly when its count is within the maximum; all of this also
\* after a request was abandoned past the limiter.
C15_NoLostIncrement ==
  /\ \A c \in Clients :
       /\ allowed[c] <= Max
       /\ hits[c] = issued[c]
  /\ \A r \in Reqs :
       Counted(r) => (RejectedByLimiter(req[r]) <=> req[r].ord > Max)
  /\ \A r1, r2 \in Reqs :
       (/\ r1 /= r2 /\ Counted(r1) /\ Counted(r2)
        /\ req[r1].client = req[r2].client) => req[r1].ord /= req[r2].ord

\* two requests of one client in flight, one admitted as the last of the
\* quota and then abandoned, the other rejected
C15_Witness ==
  \E r1, r2 \in Reqs :
    /\ req[r1].client = req[r2].client
    /\ req[r1].ord = Max /\ req[r1].gone
    /\ req[r2].ord = Max + 1 /\ RejectedByLimiter(req[r2])
    /\ allowed[req[r1].client] = Max

\* C16: restrictTo runs for a request only after protect ran for it, found no
\* failure and attached a principal; a request for which protect raised a
\* failure never reaches restrictTo.
C16_GuardAfterVerifier ==
  \A r \in Reqs :
    LET q == req[r]
    IN /\ (RanStage(q, "restrictTo") \/ HandlerName(q) = "restrictTo") =>
            /\ RanStage(q, "protect")
            /\ q.attached
            /\ q.found.exists
            /\ VerifyFailure(q.tok) = NoErr
            /\ UserFailure(q.found, q.tok) = NoErr
       /\ RanStage(q, "restrictTo") => Before(q, "protect", "restrictTo")
       /\ RaisedBy(q) = "protect" => ~RanStage(q, "restrictTo")

C16_Witness ==
  \E r \in Reqs :
    /\ Before(req[r], "protect", "restrictTo")
    /\ req[r].attached
    /\ In(req[r]) = PlanRoute
    /\ req[r].found.role = "guide"
    /\ RanStage(req[r], "getMonthlyPlan")

\* the values supplied for a name, in the order supplied
Supplied(raw, n) ==
  LET at == SelectSeq([i \in 1..Len(raw) |-> i], LAMBDA i : raw[i].name = n)
  IN [j \in 1..Len(at) |-> raw[at[j]].val]

\* C17: of a parameter supplied with several values, the handler sees the
\* last value alone, unless the parameter is one of duration,
\* ratingsQuantity, ratingsAverage, maxGroupSize, difficulty, price: of these
\* it sees all the values, as a sequence in the order supplied.
C17_LastValueUnlessWhitelisted ==
  qry.pc = 3 =>
    \A n \in QueryNames :
      LET supplied == Supplied(qry.raw, n)
      IN Len(supplied) > 1 =>
           /\ n \in DOMAIN qry.query
           /\ IF n \in {"duration", "ratingsQuantity", "ratingsAverage",
                         "maxGroupSize", "difficulty", "price"}
              THEN qry.query[n] = [isArr |-> TRUE, vals |-> supplied]
              ELSE qry.query[n] =
                     [isArr |-> FALSE, vals |-> <<supplied[Len(supplied)]>>]

\* sort=1&price=2&sort=2&price=1: sort is seen as 2, price as (2, 1)
C17_Witness ==
  /\ qry.pc = 3
  /\ Supplied(qry.raw, "sort") = <<"1", "2">>
  /\ Supplied(qry.raw, "price") = <<"2", "1">>
  /\ qry.query["sort"].vals = <<"2">>
  /\ qry.query["price"].vals = <<"2", "1">>

\* the handlers behind protect in part_001
GuardedHandlers == {"createTour", "updateTour", "deleteTour", "getMonthlyPlan"}

\* the tour handlers that ran for a request
HandlersRan(q) == {h \in TourHandlers : RanStage(q, h)}

\* protect ran for the request, found no failure and attached the principal
Authenticated(q) ==
  /\ RanStage(q, "protect")
  /\ q.attached
  /\ VerifyFailure(q.tok) = NoErr
  /\ UserFailure(q.found, q.tok) = NoErr

\* C18 (as stated): in either tour route table, createTour, updateTour,
\* deleteTour and getMonthlyPlan run only for a request with an authenticated
\* principal, and the handlers that run without one are among getAllTours,
\* getTour and getTourStats.
C18_WritesNeedPrincipal ==
  \A r \in Reqs :
    LET q == req[r]
    IN /\ HandlersRan(q) \cap GuardedHandlers /= {} => Authenticated(q)
       /\ ~Authenticated(q) =>
            HandlersRan(q) \subseteq {"getAllTours", "getTour", "getTourStats"}

\* C18 amended: in the table that declares access control (part_001) the four
\* guarded handlers run only for a request with an authenticated principal,
\* and the handlers that run without one are among getAllTours, getTour,
\* getTourStats, getToursWithin and getDistances; in the table that declares
\* none (part_000) neither protect nor restrictTo runs and no request is ever
\* authenticated, whichever handler it reaches.
C18_WritesNeedPrincipalWhereDeclared ==
  \A r \in Reqs :
    LET q == req[r]
    IN /\ routeTable = 1 =>
            /\ HandlersRan(q) \cap GuardedHandlers /= {} => Authenticated(q)
            /\ ~Authenticated(q) =>
                 HandlersRan(q) \subseteq
                   {"getAllTours", "getTour", "getTourStats",
                    "getToursWithin", "getDistances"}
       /\ routeTable = 0 =>
            /\ ~RanStage(q, "protect")
            /\ ~RanStage(q, "restrictTo")
            /\ ~q.attached

C18_Witness ==
  \E r \in Reqs :
    /\ routeTable = 1
    /\ RanStage(req[r], "deleteTour")
    /\ Authenticated(req[r])
    /\ req[r].found.role = "lead-guide"

\* part_001: a handler outside the claim's list runs without a principal
C18_OpenReadWitness ==
  \E r \in Reqs :
    /\ routeTable = 1
    /\ RanStage(req[r], "getDistances")
    /\ ~req[r].attached

====
